---------------------------- MODULE Spec2Model ----------------------------
(***************************************************************************)
(* Interruption classification filter of the voice agent.                  *)
(*                                                                         *)
(* A transcript is a Python str: a sequence of Unicode code points, here   *)
(* a sequence of integers.  The filter lowercases it, splits it on runs    *)
(* of whitespace, strips a fixed set of punctuation characters from both   *)
(* ends of every piece, drops empty pieces and stop words, and maps the    *)
(* remaining tokens and the agent-speaking flag to one of SWALLOW,         *)
(* RESPOND, INTERRUPT.                                                     *)
(*                                                                         *)
(* Spec          drives test_filter_logic over a bounded set of            *)
(*               transcripts and their stop-word variations.               *)
(* SpecSession   drives consecutive calls of test_filter_logic through a   *)
(*               session with a clock.                                     *)
(***************************************************************************)
EXTENDS Integers, Sequences, FiniteSets, TLC

VARIABLES
  transcript,      \* the transcript handed to the filter (sequence of code points)
  agent_speaking,  \* whether the agent currently has speech in flight
  pc,              \* "ready": transcript not classified yet, "done": classified
  action,          \* action returned by the last call, "NONE" before any call
  reason,          \* reason returned by the last call
  prev_action,     \* action of the transcript before its last stop-word variation
  varied,          \* the transcript is a stop-word variation of a classified one
  now,             \* session clock in milliseconds
  calls            \* the calls of the session so far, in order

vars == <<transcript, agent_speaking, pc, action, reason, prev_action, varied,
          now, calls>>

filter_vars == <<transcript, agent_speaking, pc, action, reason, prev_action, varied>>
session_vars == <<now, calls>>

-----------------------------------------------------------------------------
(* Bounds of the model *)

MaxPieces == 3
MaxLen == 10
MaxTime == 150
MaxCalls == 3

-----------------------------------------------------------------------------
(* String literals: the code points of the printable ASCII characters *)

\* Printable[i] is the character with code point 31 + i (the grave accent,
\* code point 96, is written by name)
Printable ==
  <<
    " ", "!", "\"", "#", "$", "%", "&", "'", "(", ")", "*", "+", ",", "-",
    ".", "/", "0", "1", "2", "3", "4", "5", "6", "7", "8", "9", ":", ";",
    "<", "=", ">", "?", "@", "A", "B", "C", "D", "E", "F", "G", "H", "I",
    "J", "K", "L", "M", "N", "O", "P", "Q", "R", "S", "T", "U", "V", "W",
    "X", "Y", "Z", "[", "\\", "]", "^", "_", "GRAVE", "a", "b", "c", "d", "e",
    "f", "g", "h", "i", "j", "k", "l", "m", "n", "o", "p", "q", "r", "s",
    "t", "u", "v", "w", "x", "y", "z", "{", "|", "}", "~"
  >>

\* ord(ch) of a printable ASCII character
Ord(ch) == 31 + (CHOOSE i \in 1..Len(Printable) : Printable[i] = ch)

\* The str spelled by a tuple of printable ASCII characters
Str(chars) == [i \in 1..Len(chars) |-> Ord(chars[i])]

-----------------------------------------------------------------------------
(* Lexicon *)

IGNORE_WORDS ==
  { Str(w) : w \in {
    <<"y","e","a","h">>, <<"o","k">>, <<"o","k","a","y">>, <<"h","m","m">>,
    <<"u","h","-","h","u","h">>, <<"r","i","g","h","t">>, <<"y","e","p">>,
    <<"m","m","h","m","m">>, <<"s","u","r","e">>,
    <<"u","n","d","e","r","s","t","o","o","d">>, <<"g","o","t"," ","i","t">>, <<"u","h">>,
    <<"u","m">>, <<"a","h">>, <<"y","e","a","h"," ","y","e","a","h">>,
    <<"a","b","s","o","l","u","t","e","l","y">>,
    <<"d","e","f","i","n","i","t","e","l","y">>, <<"c","e","r","t","a","i","n","l","y">>,
    <<"s","o","u","n","d","s"," ","g","o","o","d">>, <<"i"," ","s","e","e">>,
    <<"i"," ","k","n","o","w">>, <<"i"," ","g","e","t"," ","i","t">>,
    <<"m","a","k","e","s"," ","s","e","n","s","e">>, <<"g","o","t"," ","y","a">>,
    <<"n","o"," ","k","i","d","d","i","n","g">>, <<"y","o","u"," ","b","e","t">>,
    <<"f","o","r"," ","s","u","r","e">>, <<"a","l","l"," ","r","i","g","h","t">>,
    <<"a","l","r","i","g","h","t">>
  } }

INTERRUPT_WORDS ==
  { Str(w) : w \in {
    <<"s","t","o","p">>, <<"w","a","i","t">>, <<"n","o">>, <<"h","o","l","d">>,
    <<"c","a","n","c","e","l">>, <<"p","a","u","s","e">>, <<"h","o","l","d"," ","o","n">>,
    <<"w","a","i","t"," ","w","a","i","t">>, <<"o","n","e"," ","s","e","c","o","n","d">>,
    <<"o","n","e"," ","s","e","c">>, <<"j","u","s","t"," ","a"," ","s","e","c">>,
    <<"h","a","n","g"," ","o","n">>, <<"s","l","o","w"," ","d","o","w","n">>,
    <<"r","e","p","e","a","t"," ","t","h","a","t">>, <<"w","h","a","t">>,
    <<"s","o","r","r","y">>, <<"e","x","c","u","s","e"," ","m","e">>,
    <<"n","e","v","e","r"," ","m","i","n","d">>, <<"n","e","v","e","r">>,
    <<"d","o","n","'","t">>, <<"d","o","n","'","t"," ","s","a","y"," ","t","h","a","t">>
  } }

\* Mutant of FILLER_WORDS: "right" and "wait" are listed as fillers too
FILLER_WORDS_Overlap ==
  { Str(w) : w \in
      { <<"b","u","t">>, <<"a","n","d">>, <<"r","i","g","h","t">>, <<"w","a","i","t">> } }

FILLER_WORDS ==
  { Str(w) : w \in {
    <<"b","u","t">>, <<"a","n","d">>, <<"o","r">>, <<"l","i","k","e">>,
    <<"y","o","u"," ","k","n","o","w">>, <<"i"," ","m","e","a","n">>,
    <<"a","c","t","u","a","l","l","y">>, <<"w","e","l","l">>, <<"s","o">>,
    <<"a","n","y","w","a","y">>, <<"b","a","s","i","c","a","l","l","y">>,
    <<"e","s","s","e","n","t","i","a","l","l","y">>,
    <<"p","r","a","c","t","i","c","a","l","l","y">>, <<"k","i","n","d"," ","o","f">>,
    <<"s","o","r","t"," ","o","f">>, <<"s","o","m","e","h","o","w">>,
    <<"s","o","m","e","w","h","a","t">>, <<"q","u","i","t","e">>,
    <<"r","e","a","l","l","y">>, <<"v","e","r","y">>, <<"p","r","e","t","t","y">>,
    <<"h","o","n","e","s","t","l","y">>, <<"s","e","r","i","o","u","s","l","y">>,
    <<"l","i","t","e","r","a","l","l","y">>
  } }

STOP_WORDS ==
  { Str(w) : w \in
      { <<"a">>, <<"a","n">>, <<"t","h","e">>, <<"t","o">>, <<"i","n">>, <<"o","n">>, <<"a","t">> } }

STRIP_CHARS ==
  { Ord(c) : c \in { ".", ",", "!", "?", ";", ":", "(", ")", "[", "]", "\"", "'" } }

MICRO_DEBOUNCE_MS == 150

Actions == { "SWALLOW", "RESPOND", "INTERRUPT" }

-----------------------------------------------------------------------------
(* String primitives used by the tokenizer *)

\* The code points str.split() and str.strip() without arguments treat as
\* whitespace (str.isspace): TAB..CR, FS..US, SPACE, NEL, NBSP and the
\* Unicode space separators
Whitespace ==
  (9..13) \cup (28..32) \cup {133} \cup {160} \cup {5760}
    \cup (8192..8202) \cup (8232..8233) \cup {8239} \cup {8287} \cup {12288}

\* Simple lowercase mappings of str.lower() (Unicode 14.0.0): <<first, last,
\* step, delta>> maps every step-th code point c of first..last to c + delta
LOWER_RUNS ==
  <<
    <<65,90,1,32>>, <<192,214,1,32>>, <<216,222,1,32>>, <<256,302,2,1>>,
    <<306,310,2,1>>, <<313,327,2,1>>, <<330,374,2,1>>, <<376,376,1,-121>>,
    <<377,381,2,1>>, <<385,385,1,210>>, <<386,388,2,1>>, <<390,390,1,206>>,
    <<391,391,1,1>>, <<393,394,1,205>>, <<395,395,1,1>>, <<398,398,1,79>>,
    <<399,399,1,202>>, <<400,400,1,203>>, <<401,401,1,1>>,
    <<403,403,1,205>>, <<404,404,1,207>>, <<406,406,1,211>>,
    <<407,407,1,209>>, <<408,408,1,1>>, <<412,412,1,211>>,
    <<413,413,1,213>>, <<415,415,1,214>>, <<416,420,2,1>>,
    <<422,422,1,218>>, <<423,423,1,1>>, <<425,425,1,218>>, <<428,428,1,1>>,
    <<430,430,1,218>>, <<431,431,1,1>>, <<433,434,1,217>>, <<435,437,2,1>>,
    <<439,439,1,219>>, <<440,440,1,1>>, <<444,444,1,1>>, <<452,452,1,2>>,
    <<453,453,1,1>>, <<455,455,1,2>>, <<456,456,1,1>>, <<458,458,1,2>>,
    <<459,475,2,1>>, <<478,494,2,1>>, <<497,497,1,2>>, <<498,500,2,1>>,
    <<502,502,1,-97>>, <<503,503,1,-56>>, <<504,542,2,1>>,
    <<544,544,1,-130>>, <<546,562,2,1>>, <<570,570,1,10795>>,
    <<571,571,1,1>>, <<573,573,1,-163>>, <<574,574,1,10792>>,
    <<577,577,1,1>>, <<579,579,1,-195>>, <<580,580,1,69>>, <<581,581,1,71>>,
    <<582,590,2,1>>, <<880,882,2,1>>, <<886,886,1,1>>, <<895,895,1,116>>,
    <<902,902,1,38>>, <<904,906,1,37>>, <<908,908,1,64>>, <<910,911,1,63>>,
    <<913,929,1,32>>, <<931,939,1,32>>, <<975,975,1,8>>, <<984,1006,2,1>>,
    <<1012,1012,1,-60>>, <<1015,1015,1,1>>, <<1017,1017,1,-7>>,
    <<1018,1018,1,1>>, <<1021,1023,1,-130>>, <<1024,1039,1,80>>,
    <<1040,1071,1,32>>, <<1120,1152,2,1>>, <<1162,1214,2,1>>,
    <<1216,1216,1,15>>, <<1217,1229,2,1>>, <<1232,1326,2,1>>,
    <<1329,1366,1,48>>, <<4256,4293,1,7264>>, <<4295,4295,1,7264>>,
    <<4301,4301,1,7264>>, <<5024,5103,1,38864>>, <<5104,5109,1,8>>,
    <<7312,7354,1,-3008>>, <<7357,7359,1,-3008>>, <<7680,7828,2,1>>,
    <<7838,7838,1,-7615>>, <<7840,7934,2,1>>, <<7944,7951,1,-8>>,
    <<7960,7965,1,-8>>, <<7976,7983,1,-8>>, <<7992,7999,1,-8>>,
    <<8008,8013,1,-8>>, <<8025,8031,2,-8>>, <<8040,8047,1,-8>>,
    <<8072,8079,1,-8>>, <<8088,8095,1,-8>>, <<8104,8111,1,-8>>,
    <<8120,8121,1,-8>>, <<8122,8123,1,-74>>, <<8124,8124,1,-9>>,
    <<8136,8139,1,-86>>, <<8140,8140,1,-9>>, <<8152,8153,1,-8>>,
    <<8154,8155,1,-100>>, <<8168,8169,1,-8>>, <<8170,8171,1,-112>>,
    <<8172,8172,1,-7>>, <<8184,8185,1,-128>>, <<8186,8187,1,-126>>,
    <<8188,8188,1,-9>>, <<8486,8486,1,-7517>>, <<8490,8490,1,-8383>>,
    <<8491,8491,1,-8262>>, <<8498,8498,1,28>>, <<8544,8559,1,16>>,
    <<8579,8579,1,1>>, <<9398,9423,1,26>>, <<11264,11311,1,48>>,
    <<11360,11360,1,1>>, <<11362,11362,1,-10743>>, <<11363,11363,1,-3814>>,
    <<11364,11364,1,-10727>>, <<11367,11371,2,1>>, <<11373,11373,1,-10780>>,
    <<11374,11374,1,-10749>>, <<11375,11375,1,-10783>>,
    <<11376,11376,1,-10782>>, <<11378,11378,1,1>>, <<11381,11381,1,1>>,
    <<11390,11391,1,-10815>>, <<11392,11490,2,1>>, <<11499,11501,2,1>>,
    <<11506,11506,1,1>>, <<42560,42604,2,1>>, <<42624,42650,2,1>>,
    <<42786,42798,2,1>>, <<42802,42862,2,1>>, <<42873,42875,2,1>>,
    <<42877,42877,1,-35332>>, <<42878,42886,2,1>>, <<42891,42891,1,1>>,
    <<42893,42893,1,-42280>>, <<42896,42898,2,1>>, <<42902,42920,2,1>>,
    <<42922,42922,1,-42308>>, <<42923,42923,1,-42319>>,
    <<42924,42924,1,-42315>>, <<42925,42925,1,-42305>>,
    <<42926,42926,1,-42308>>, <<42928,42928,1,-42258>>,
    <<42929,42929,1,-42282>>, <<42930,42930,1,-42261>>,
    <<42931,42931,1,928>>, <<42932,42946,2,1>>, <<42948,42948,1,-48>>,
    <<42949,42949,1,-42307>>, <<42950,42950,1,-35384>>, <<42951,42953,2,1>>,
    <<42960,42960,1,1>>, <<42966,42968,2,1>>, <<42997,42997,1,1>>,
    <<65313,65338,1,32>>, <<66560,66599,1,40>>, <<66736,66771,1,40>>,
    <<66928,66938,1,39>>, <<66940,66954,1,39>>, <<66956,66962,1,39>>,
    <<66964,66965,1,39>>, <<68736,68786,1,64>>, <<71840,71871,1,32>>,
    <<93760,93791,1,32>>, <<125184,125217,1,34>>
  >>

\* Ranges of the cased code points that are not case-ignorable
CASED_RANGES ==
  <<
    <<65,90>>, <<97,122>>, <<170,170>>, <<181,181>>, <<186,186>>,
    <<192,214>>, <<216,246>>, <<248,442>>, <<444,447>>, <<452,659>>,
    <<661,687>>, <<880,883>>, <<886,887>>, <<891,893>>, <<895,895>>,
    <<902,902>>, <<904,906>>, <<908,908>>, <<910,929>>, <<931,1013>>,
    <<1015,1153>>, <<1162,1327>>, <<1329,1366>>, <<1376,1416>>,
    <<4256,4293>>, <<4295,4295>>, <<4301,4301>>, <<4304,4346>>,
    <<4349,4351>>, <<5024,5109>>, <<5112,5117>>, <<7296,7304>>,
    <<7312,7354>>, <<7357,7359>>, <<7424,7467>>, <<7531,7543>>,
    <<7545,7578>>, <<7680,7957>>, <<7960,7965>>, <<7968,8005>>,
    <<8008,8013>>, <<8016,8023>>, <<8025,8025>>, <<8027,8027>>,
    <<8029,8029>>, <<8031,8061>>, <<8064,8116>>, <<8118,8124>>,
    <<8126,8126>>, <<8130,8132>>, <<8134,8140>>, <<8144,8147>>,
    <<8150,8155>>, <<8160,8172>>, <<8178,8180>>, <<8182,8188>>,
    <<8450,8450>>, <<8455,8455>>, <<8458,8467>>, <<8469,8469>>,
    <<8473,8477>>, <<8484,8484>>, <<8486,8486>>, <<8488,8488>>,
    <<8490,8493>>, <<8495,8500>>, <<8505,8505>>, <<8508,8511>>,
    <<8517,8521>>, <<8526,8526>>, <<8544,8575>>, <<8579,8580>>,
    <<9398,9449>>, <<11264,11387>>, <<11390,11492>>, <<11499,11502>>,
    <<11506,11507>>, <<11520,11557>>, <<11559,11559>>, <<11565,11565>>,
    <<42560,42605>>, <<42624,42651>>, <<42786,42863>>, <<42865,42887>>,
    <<42891,42894>>, <<42896,42954>>, <<42960,42961>>, <<42963,42963>>,
    <<42965,42969>>, <<42997,42998>>, <<43002,43002>>, <<43824,43866>>,
    <<43872,43880>>, <<43888,43967>>, <<64256,64262>>, <<64275,64279>>,
    <<65313,65338>>, <<65345,65370>>, <<66560,66639>>, <<66736,66771>>,
    <<66776,66811>>, <<66928,66938>>, <<66940,66954>>, <<66956,66962>>,
    <<66964,66965>>, <<66967,66977>>, <<66979,66993>>, <<66995,67001>>,
    <<67003,67004>>, <<68736,68786>>, <<68800,68850>>, <<71840,71903>>,
    <<93760,93823>>, <<119808,119892>>, <<119894,119964>>,
    <<119966,119967>>, <<119970,119970>>, <<119973,119974>>,
    <<119977,119980>>, <<119982,119993>>, <<119995,119995>>,
    <<119997,120003>>, <<120005,120069>>, <<120071,120074>>,
    <<120077,120084>>, <<120086,120092>>, <<120094,120121>>,
    <<120123,120126>>, <<120128,120132>>, <<120134,120134>>,
    <<120138,120144>>, <<120146,120485>>, <<120488,120512>>,
    <<120514,120538>>, <<120540,120570>>, <<120572,120596>>,
    <<120598,120628>>, <<120630,120654>>, <<120656,120686>>,
    <<120688,120712>>, <<120714,120744>>, <<120746,120770>>,
    <<120772,120779>>, <<122624,122633>>, <<122635,122654>>,
    <<125184,125251>>, <<127280,127305>>, <<127312,127337>>,
    <<127344,127369>>
  >>

\* Ranges of the case-ignorable code points
CASE_IGNORABLE_RANGES ==
  <<
    <<39,39>>, <<46,46>>, <<58,58>>, <<94,94>>, <<96,96>>, <<168,168>>,
    <<173,173>>, <<175,175>>, <<180,180>>, <<183,184>>, <<688,879>>,
    <<884,885>>, <<890,890>>, <<900,901>>, <<903,903>>, <<1155,1161>>,
    <<1369,1369>>, <<1375,1375>>, <<1425,1469>>, <<1471,1471>>,
    <<1473,1474>>, <<1476,1477>>, <<1479,1479>>, <<1524,1524>>,
    <<1536,1541>>, <<1552,1562>>, <<1564,1564>>, <<1600,1600>>,
    <<1611,1631>>, <<1648,1648>>, <<1750,1757>>, <<1759,1768>>,
    <<1770,1773>>, <<1807,1807>>, <<1809,1809>>, <<1840,1866>>,
    <<1958,1968>>, <<2027,2037>>, <<2042,2042>>, <<2045,2045>>,
    <<2070,2093>>, <<2137,2139>>, <<2184,2184>>, <<2192,2193>>,
    <<2200,2207>>, <<2249,2306>>, <<2362,2362>>, <<2364,2364>>,
    <<2369,2376>>, <<2381,2381>>, <<2385,2391>>, <<2402,2403>>,
    <<2417,2417>>, <<2433,2433>>, <<2492,2492>>, <<2497,2500>>,
    <<2509,2509>>, <<2530,2531>>, <<2558,2558>>, <<2561,2562>>,
    <<2620,2620>>, <<2625,2626>>, <<2631,2632>>, <<2635,2637>>,
    <<2641,2641>>, <<2672,2673>>, <<2677,2677>>, <<2689,2690>>,
    <<2748,2748>>, <<2753,2757>>, <<2759,2760>>, <<2765,2765>>,
    <<2786,2787>>, <<2810,2815>>, <<2817,2817>>, <<2876,2876>>,
    <<2879,2879>>, <<2881,2884>>, <<2893,2893>>, <<2901,2902>>,
    <<2914,2915>>, <<2946,2946>>, <<3008,3008>>, <<3021,3021>>,
    <<3072,3072>>, <<3076,3076>>, <<3132,3132>>, <<3134,3136>>,
    <<3142,3144>>, <<3146,3149>>, <<3157,3158>>, <<3170,3171>>,
    <<3201,3201>>, <<3260,3260>>, <<3263,3263>>, <<3270,3270>>,
    <<3276,3277>>, <<3298,3299>>, <<3328,3329>>, <<3387,3388>>,
    <<3393,3396>>, <<3405,3405>>, <<3426,3427>>, <<3457,3457>>,
    <<3530,3530>>, <<3538,3540>>, <<3542,3542>>, <<3633,3633>>,
    <<3636,3642>>, <<3654,3662>>, <<3761,3761>>, <<3764,3772>>,
    <<3782,3782>>, <<3784,3789>>, <<3864,3865>>, <<3893,3893>>,
    <<3895,3895>>, <<3897,3897>>, <<3953,3966>>, <<3968,3972>>,
    <<3974,3975>>, <<3981,3991>>, <<3993,4028>>, <<4038,4038>>,
    <<4141,4144>>, <<4146,4151>>, <<4153,4154>>, <<4157,4158>>,
    <<4184,4185>>, <<4190,4192>>, <<4209,4212>>, <<4226,4226>>,
    <<4229,4230>>, <<4237,4237>>, <<4253,4253>>, <<4348,4348>>,
    <<4957,4959>>, <<5906,5908>>, <<5938,5939>>, <<5970,5971>>,
    <<6002,6003>>, <<6068,6069>>, <<6071,6077>>, <<6086,6086>>,
    <<6089,6099>>, <<6103,6103>>, <<6109,6109>>, <<6155,6159>>,
    <<6211,6211>>, <<6277,6278>>, <<6313,6313>>, <<6432,6434>>,
    <<6439,6440>>, <<6450,6450>>, <<6457,6459>>, <<6679,6680>>,
    <<6683,6683>>, <<6742,6742>>, <<6744,6750>>, <<6752,6752>>,
    <<6754,6754>>, <<6757,6764>>, <<6771,6780>>, <<6783,6783>>,
    <<6823,6823>>, <<6832,6862>>, <<6912,6915>>, <<6964,6964>>,
    <<6966,6970>>, <<6972,6972>>, <<6978,6978>>, <<7019,7027>>,
    <<7040,7041>>, <<7074,7077>>, <<7080,7081>>, <<7083,7085>>,
    <<7142,7142>>, <<7144,7145>>, <<7149,7149>>, <<7151,7153>>,
    <<7212,7219>>, <<7222,7223>>, <<7288,7293>>, <<7376,7378>>,
    <<7380,7392>>, <<7394,7400>>, <<7405,7405>>, <<7412,7412>>,
    <<7416,7417>>, <<7468,7530>>, <<7544,7544>>, <<7579,7679>>,
    <<8125,8125>>, <<8127,8129>>, <<8141,8143>>, <<8157,8159>>,
    <<8173,8175>>, <<8189,8190>>, <<8203,8207>>, <<8216,8217>>,
    <<8228,8228>>, <<8231,8231>>, <<8234,8238>>, <<8288,8292>>,
    <<8294,8303>>, <<8305,8305>>, <<8319,8319>>, <<8336,8348>>,
    <<8400,8432>>, <<11388,11389>>, <<11503,11505>>, <<11631,11631>>,
    <<11647,11647>>, <<11744,11775>>, <<11823,11823>>, <<12293,12293>>,
    <<12330,12333>>, <<12337,12341>>, <<12347,12347>>, <<12441,12446>>,
    <<12540,12542>>, <<40981,40981>>, <<42232,42237>>, <<42508,42508>>,
    <<42607,42610>>, <<42612,42621>>, <<42623,42623>>, <<42652,42655>>,
    <<42736,42737>>, <<42752,42785>>, <<42864,42864>>, <<42888,42890>>,
    <<42994,42996>>, <<43000,43001>>, <<43010,43010>>, <<43014,43014>>,
    <<43019,43019>>, <<43045,43046>>, <<43052,43052>>, <<43204,43205>>,
    <<43232,43249>>, <<43263,43263>>, <<43302,43309>>, <<43335,43345>>,
    <<43392,43394>>, <<43443,43443>>, <<43446,43449>>, <<43452,43453>>,
    <<43471,43471>>, <<43493,43494>>, <<43561,43566>>, <<43569,43570>>,
    <<43573,43574>>, <<43587,43587>>, <<43596,43596>>, <<43632,43632>>,
    <<43644,43644>>, <<43696,43696>>, <<43698,43700>>, <<43703,43704>>,
    <<43710,43711>>, <<43713,43713>>, <<43741,43741>>, <<43756,43757>>,
    <<43763,43764>>, <<43766,43766>>, <<43867,43871>>, <<43881,43883>>,
    <<44005,44005>>, <<44008,44008>>, <<44013,44013>>, <<64286,64286>>,
    <<64434,64450>>, <<65024,65039>>, <<65043,65043>>, <<65056,65071>>,
    <<65106,65106>>, <<65109,65109>>, <<65279,65279>>, <<65287,65287>>,
    <<65294,65294>>, <<65306,65306>>, <<65342,65342>>, <<65344,65344>>,
    <<65392,65392>>, <<65438,65439>>, <<65507,65507>>, <<65529,65531>>,
    <<66045,66045>>, <<66272,66272>>, <<66422,66426>>, <<67456,67461>>,
    <<67463,67504>>, <<67506,67514>>, <<68097,68099>>, <<68101,68102>>,
    <<68108,68111>>, <<68152,68154>>, <<68159,68159>>, <<68325,68326>>,
    <<68900,68903>>, <<69291,69292>>, <<69446,69456>>, <<69506,69509>>,
    <<69633,69633>>, <<69688,69702>>, <<69744,69744>>, <<69747,69748>>,
    <<69759,69761>>, <<69811,69814>>, <<69817,69818>>, <<69821,69821>>,
    <<69826,69826>>, <<69837,69837>>, <<69888,69890>>, <<69927,69931>>,
    <<69933,69940>>, <<70003,70003>>, <<70016,70017>>, <<70070,70078>>,
    <<70089,70092>>, <<70095,70095>>, <<70191,70193>>, <<70196,70196>>,
    <<70198,70199>>, <<70206,70206>>, <<70367,70367>>, <<70371,70378>>,
    <<70400,70401>>, <<70459,70460>>, <<70464,70464>>, <<70502,70508>>,
    <<70512,70516>>, <<70712,70719>>, <<70722,70724>>, <<70726,70726>>,
    <<70750,70750>>, <<70835,70840>>, <<70842,70842>>, <<70847,70848>>,
    <<70850,70851>>, <<71090,71093>>, <<71100,71101>>, <<71103,71104>>,
    <<71132,71133>>, <<71219,71226>>, <<71229,71229>>, <<71231,71232>>,
    <<71339,71339>>, <<71341,71341>>, <<71344,71349>>, <<71351,71351>>,
    <<71453,71455>>, <<71458,71461>>, <<71463,71467>>, <<71727,71735>>,
    <<71737,71738>>, <<71995,71996>>, <<71998,71998>>, <<72003,72003>>,
    <<72148,72151>>, <<72154,72155>>, <<72160,72160>>, <<72193,72202>>,
    <<72243,72248>>, <<72251,72254>>, <<72263,72263>>, <<72273,72278>>,
    <<72281,72283>>, <<72330,72342>>, <<72344,72345>>, <<72752,72758>>,
    <<72760,72765>>, <<72767,72767>>, <<72850,72871>>, <<72874,72880>>,
    <<72882,72883>>, <<72885,72886>>, <<73009,73014>>, <<73018,73018>>,
    <<73020,73021>>, <<73023,73029>>, <<73031,73031>>, <<73104,73105>>,
    <<73109,73109>>, <<73111,73111>>, <<73459,73460>>, <<78896,78904>>,
    <<92912,92916>>, <<92976,92982>>, <<92992,92995>>, <<94031,94031>>,
    <<94095,94111>>, <<94176,94177>>, <<94179,94180>>, <<110576,110579>>,
    <<110581,110587>>, <<110589,110590>>, <<113821,113822>>,
    <<113824,113827>>, <<118528,118573>>, <<118576,118598>>,
    <<119143,119145>>, <<119155,119170>>, <<119173,119179>>,
    <<119210,119213>>, <<119362,119364>>, <<121344,121398>>,
    <<121403,121452>>, <<121461,121461>>, <<121476,121476>>,
    <<121499,121503>>, <<121505,121519>>, <<122880,122886>>,
    <<122888,122904>>, <<122907,122913>>, <<122915,122916>>,
    <<122918,122922>>, <<123184,123197>>, <<123566,123566>>,
    <<123628,123631>>, <<125136,125142>>, <<125252,125259>>,
    <<127995,127999>>, <<917505,917505>>, <<917536,917631>>,
    <<917760,917999>>
  >>

InRanges(c, ranges) ==
  \E k \in 1..Len(ranges) : ranges[k][1] <= c /\ c <= ranges[k][2]

IsCased(c) == InRanges(c, CASED_RANGES)

IsCaseIgnorable(c) == InRanges(c, CASE_IGNORABLE_RANGES)

\* Lowercase of one code point out of context
LowerChar(c) ==
  IF c < 65 THEN c
  ELSE IF c <= 90 THEN c + 32
  ELSE IF c < 192 THEN c
  ELSE IF \E k \in 1..Len(LOWER_RUNS) :
            /\ LOWER_RUNS[k][1] <= c /\ c <= LOWER_RUNS[k][2]
            /\ (c - LOWER_RUNS[k][1]) % LOWER_RUNS[k][3] = 0
    THEN LET k == CHOOSE k \in 1..Len(LOWER_RUNS) :
                    /\ LOWER_RUNS[k][1] <= c /\ c <= LOWER_RUNS[k][2]
                    /\ (c - LOWER_RUNS[k][1]) % LOWER_RUNS[k][3] = 0
         IN  c + LOWER_RUNS[k][4]
    ELSE c

\* The nearest place before i (step -1) or after i (step 1) of s that holds
\* no case-ignorable code point; 0 or Len(s) + 1 when there is none
RECURSIVE SkipCaseIgnorable(_, _, _)
SkipCaseIgnorable(s, i, step) ==
  LET j == i + step
  IN  IF j < 1 \/ j > Len(s) THEN j
      ELSE IF IsCaseIgnorable(s[j]) THEN SkipCaseIgnorable(s, j, step)
      ELSE j

\* GREEK CAPITAL LETTER SIGMA at s[i] is in the Final_Sigma context: a cased
\* letter before it and none after it, case-ignorable code points skipped
FinalSigma(s, i) ==
  LET b == SkipCaseIgnorable(s, i, -1)
      a == SkipCaseIgnorable(s, i, 1)
  IN  /\ b >= 1
      /\ IsCased(s[b])
      /\ (IF a > Len(s) THEN TRUE ELSE ~IsCased(s[a]))

\* The code points str.lower() puts in the place of s[i]
LowerAt(s, i) ==
  IF s[i] < 192 THEN <<LowerChar(s[i])>>
  ELSE IF s[i] = 304 THEN <<105, 775>>
  ELSE IF s[i] = 931 THEN (IF FinalSigma(s, i) THEN <<962>> ELSE <<963>>)
  ELSE <<LowerChar(s[i])>>

RECURSIVE LowerFrom(_, _)
LowerFrom(s, i) ==
  IF i > Len(s) THEN <<>> ELSE LowerAt(s, i) \o LowerFrom(s, i + 1)

\* str.lower()
lower(s) == LowerFrom(s, 1)

RECURSIVE SplitAcc(_, _, _, _)
SplitAcc(s, cur, out, seps) ==
  IF s = <<>>
    THEN IF cur = <<>> THEN out ELSE Append(out, cur)
    ELSE IF Head(s) \in seps
      THEN SplitAcc(Tail(s), <<>>, IF cur = <<>> THEN out ELSE Append(out, cur), seps)
      ELSE SplitAcc(Tail(s), Append(cur, Head(s)), out, seps)

\* Mutant of split: the transcript is cut at tabs and line ends only, so a
\* piece may hold several space-separated words
split_KeepSpaces(s) == SplitAcc(s, <<>>, <<>>, Whitespace \ {32})

\* str.split() without arguments: pieces between runs of whitespace, none empty
split(s) == SplitAcc(s, <<>>, <<>>, Whitespace)

RECURSIVE lstrip(_, _)
lstrip(s, chars) ==
  IF s # <<>> /\ Head(s) \in chars THEN lstrip(Tail(s), chars) ELSE s

RECURSIVE rstrip(_, _)
rstrip(s, chars) ==
  IF s # <<>> /\ s[Len(s)] \in chars THEN rstrip(SubSeq(s, 1, Len(s) - 1), chars) ELSE s

\* str.strip(chars)
strip(s, chars) == rstrip(lstrip(s, chars), chars)

RECURSIVE SelectTokens(_, _)
SelectTokens(seq, keep) ==
  IF seq = <<>> THEN <<>>
  ELSE IF Head(seq) \in keep
    THEN <<Head(seq)>> \o SelectTokens(Tail(seq), keep)
    ELSE SelectTokens(Tail(seq), keep)

Range(seq) == { seq[i] : i \in 1..Len(seq) }

-----------------------------------------------------------------------------
(* The filter *)

\* [t.strip(".,!?;:()[]\"'") for t in transcript.lower().split() if t.strip()]
StrippedPieces(s) ==
  LET pieces == SelectSeq(split(lower(s)), LAMBDA t : strip(t, Whitespace) # <<>>)
  IN  [i \in 1..Len(pieces) |-> strip(pieces[i], STRIP_CHARS)]

\* Mutant of Tokens: stop words are kept
Tokens_KeepStopWords(s) ==
  SelectSeq(StrippedPieces(s), LAMBDA t : t # <<>>)

\* [t for t in tokens if t and t not in {"a", "an", "the", "to", "in", "on", "at"}]
Tokens(s) ==
  SelectSeq(StrippedPieces(s), LAMBDA t : t # <<>> /\ t \notin STOP_WORDS)

\* Mutant of FilterTokens: the interrupt-word branch returns the wrong action
FilterTokens_SwallowOnInterrupt(tokens, speaking, ignore, interrupt, filler) ==
  IF tokens = <<>>
    THEN <<"SWALLOW", [msg |-> "No tokens (VAD blip)", toks |-> <<>>]>>
  ELSE IF ~speaking
    THEN <<"RESPOND", [msg |-> "Agent is silent - treat as normal input", toks |-> <<>>]>>
  ELSE IF \E i \in 1..Len(tokens) : tokens[i] \in interrupt
    THEN <<"SWALLOW", [msg |-> "Contains interrupt words", toks |-> SelectTokens(tokens, interrupt)]>>
  ELSE IF \A i \in 1..Len(tokens) : tokens[i] \in (ignore \cup filler)
    THEN <<"SWALLOW", [msg |-> "Only passive/filler words", toks |-> tokens]>>
  ELSE <<"INTERRUPT", [msg |-> "Mixed content detected", toks |-> tokens]>>

\* Mutant of FilterTokens: filler words are left out of the acceptable set
FilterTokens_IgnoreOnly(tokens, speaking, ignore, interrupt, filler) ==
  IF tokens = <<>>
    THEN <<"SWALLOW", [msg |-> "No tokens (VAD blip)", toks |-> <<>>]>>
  ELSE IF ~speaking
    THEN <<"RESPOND", [msg |-> "Agent is silent - treat as normal input", toks |-> <<>>]>>
  ELSE IF \E i \in 1..Len(tokens) : tokens[i] \in interrupt
    THEN <<"INTERRUPT", [msg |-> "Contains interrupt words", toks |-> SelectTokens(tokens, interrupt)]>>
  ELSE IF \A i \in 1..Len(tokens) : tokens[i] \in ignore
    THEN <<"SWALLOW", [msg |-> "Only passive/filler words", toks |-> tokens]>>
  ELSE <<"INTERRUPT", [msg |-> "Mixed content detected", toks |-> tokens]>>

\* Mutant of FilterTokens: one acceptable token is enough to swallow
FilterTokens_AnyAcceptable(tokens, speaking, ignore, interrupt, filler) ==
  IF tokens = <<>>
    THEN <<"SWALLOW", [msg |-> "No tokens (VAD blip)", toks |-> <<>>]>>
  ELSE IF ~speaking
    THEN <<"RESPOND", [msg |-> "Agent is silent - treat as normal input", toks |-> <<>>]>>
  ELSE IF \E i \in 1..Len(tokens) : tokens[i] \in interrupt
    THEN <<"INTERRUPT", [msg |-> "Contains interrupt words", toks |-> SelectTokens(tokens, interrupt)]>>
  ELSE IF \E i \in 1..Len(tokens) : tokens[i] \in (ignore \cup filler)
    THEN <<"SWALLOW", [msg |-> "Only passive/filler words", toks |-> tokens]>>
  ELSE <<"INTERRUPT", [msg |-> "Mixed content detected", toks |-> tokens]>>

\* Mutant of FilterTokens: the silent-agent rule is tested before the empty-result rule
FilterTokens_SilentFirst(tokens, speaking, ignore, interrupt, filler) ==
  IF ~speaking
    THEN <<"RESPOND", [msg |-> "Agent is silent - treat as normal input", toks |-> <<>>]>>
  ELSE IF tokens = <<>>
    THEN <<"SWALLOW", [msg |-> "No tokens (VAD blip)", toks |-> <<>>]>>
  ELSE IF \E i \in 1..Len(tokens) : tokens[i] \in interrupt
    THEN <<"INTERRUPT", [msg |-> "Contains interrupt words", toks |-> SelectTokens(tokens, interrupt)]>>
  ELSE IF \A i \in 1..Len(tokens) : tokens[i] \in (ignore \cup filler)
    THEN <<"SWALLOW", [msg |-> "Only passive/filler words", toks |-> tokens]>>
  ELSE <<"INTERRUPT", [msg |-> "Mixed content detected", toks |-> tokens]>>

\* Mutant of FilterTokens: the silent-agent rule is missing
FilterTokens_NoSilentRule(tokens, speaking, ignore, interrupt, filler) ==
  IF tokens = <<>>
    THEN <<"SWALLOW", [msg |-> "No tokens (VAD blip)", toks |-> <<>>]>>
  ELSE IF \E i \in 1..Len(tokens) : tokens[i] \in interrupt
    THEN <<"INTERRUPT", [msg |-> "Contains interrupt words", toks |-> SelectTokens(tokens, interrupt)]>>
  ELSE IF \A i \in 1..Len(tokens) : tokens[i] \in (ignore \cup filler)
    THEN <<"SWALLOW", [msg |-> "Only passive/filler words", toks |-> tokens]>>
  ELSE <<"INTERRUPT", [msg |-> "Mixed content detected", toks |-> tokens]>>

\* Mutant of FilterTokens: mixed content falls through without a result
FilterTokens_FallThrough(tokens, speaking, ignore, interrupt, filler) ==
  IF tokens = <<>>
    THEN <<"SWALLOW", [msg |-> "No tokens (VAD blip)", toks |-> <<>>]>>
  ELSE IF ~speaking
    THEN <<"RESPOND", [msg |-> "Agent is silent - treat as normal input", toks |-> <<>>]>>
  ELSE IF \E i \in 1..Len(tokens) : tokens[i] \in interrupt
    THEN <<"INTERRUPT", [msg |-> "Contains interrupt words", toks |-> SelectTokens(tokens, interrupt)]>>
  ELSE IF \A i \in 1..Len(tokens) : tokens[i] \in (ignore \cup filler)
    THEN <<"SWALLOW", [msg |-> "Only passive/filler words", toks |-> tokens]>>
  ELSE <<"NONE", [msg |-> "", toks |-> <<>>]>>

\* The decision rules of the filter on an already tokenized transcript, with
\* the three word lists as parameters.
FilterTokens(tokens, speaking, ignore, interrupt, filler) ==
  IF tokens = <<>>
    THEN <<"SWALLOW", [msg |-> "No tokens (VAD blip)", toks |-> <<>>]>>
  ELSE IF ~speaking
    THEN <<"RESPOND", [msg |-> "Agent is silent - treat as normal input", toks |-> <<>>]>>
  ELSE IF \E i \in 1..Len(tokens) : tokens[i] \in interrupt
    THEN <<"INTERRUPT", [msg |-> "Contains interrupt words", toks |-> SelectTokens(tokens, interrupt)]>>
  ELSE IF \A i \in 1..Len(tokens) : tokens[i] \in (ignore \cup filler)
    THEN <<"SWALLOW", [msg |-> "Only passive/filler words", toks |-> tokens]>>
  ELSE <<"INTERRUPT", [msg |-> "Mixed content detected", toks |-> tokens]>>

test_filter_logic(s, speaking) ==
  FilterTokens(Tokens(s), speaking, IGNORE_WORDS, INTERRUPT_WORDS, FILLER_WORDS)

-----------------------------------------------------------------------------
(* Inputs: transcripts built from raw speech-to-text pieces *)

Vocabulary ==
  { Str(<<"U","h","-","h","u","h",".">>),   \* ignore word, capitalised, inner and trailing punctuation
    <<79, 8490>>,                           \* "O" and KELVIN SIGN: lowercases to the ignore word "ok"
    Str(<<"S","t","o","p","!">>),           \* interrupt word
    Str(<<"'","D","o","n","'","t","'">>),   \* interrupt word with an inner apostrophe, quoted
    Str(<<"b","u","t">>),                   \* filler word
    Str(<<"h","e","l","l","o">>),           \* word of no list
    Str(<<"g","o","t">>), Str(<<"i","t">>), \* the two words of the ignore entry "got it"
    Str(<<"(","A",")">>),                   \* stop word, capitalised, inside punctuation
    Str(<<".",".",".">>),                   \* punctuation only
    <<12>> }                                \* whitespace only (FORM FEED)

\* Raw pieces that tokenize to a stop word
StopPieces == { Str(<<"t","o",",">>), Str(<<"T","h","e">>) }

\* The scenarios of run_test_suite
TestCases ==
  {
    \* Scenario 1: "Yeah... okay... uh-huh"
    [transcript |-> Str(<<"Y","e","a","h",".",".","."," ","o","k","a","y",".",".",".",
                  " ","u","h","-","h","u","h">>),
     agent_speaking |-> TRUE, expected_action |-> "SWALLOW"],
    \* Scenario 2: "Yeah"
    [transcript |-> Str(<<"Y","e","a","h">>),
     agent_speaking |-> FALSE, expected_action |-> "RESPOND"],
    \* Scenario 3: "Stop"
    [transcript |-> Str(<<"S","t","o","p">>),
     agent_speaking |-> TRUE, expected_action |-> "INTERRUPT"],
    \* Scenario 4: "Yeah but wait a second"
    [transcript |-> Str(<<"Y","e","a","h"," ","b","u","t"," ","w","a","i","t"," ","a",
                  " ","s","e","c","o","n","d">>),
     agent_speaking |-> TRUE, expected_action |-> "INTERRUPT"],
    \* Scenario 5: "No wait hold on"
    [transcript |-> Str(<<"N","o"," ","w","a","i","t"," ","h","o","l","d"," ","o",
                  "n">>),
     agent_speaking |-> TRUE, expected_action |-> "INTERRUPT"],
    \* Scenario 6: "Right right, okay"
    [transcript |-> Str(<<"R","i","g","h","t"," ","r","i","g","h","t",","," ","o","k",
                  "a","y">>),
     agent_speaking |-> TRUE, expected_action |-> "SWALLOW"],
    \* Scenario 7: "Cancel that"
    [transcript |-> Str(<<"C","a","n","c","e","l"," ","t","h","a","t">>),
     agent_speaking |-> FALSE, expected_action |-> "RESPOND"],
    \* Scenario 8: ""
    [transcript |-> <<>>,
     agent_speaking |-> TRUE, expected_action |-> "SWALLOW"],
    \* Scenario 9: "... ... ..."
    [transcript |-> Str(<<".",".","."," ",".",".","."," ",".",".",".">>),
     agent_speaking |-> TRUE, expected_action |-> "SWALLOW"],
    \* Scenario 10: "Yeah I see, hmm, but wait what about that"
    [transcript |-> Str(<<"Y","e","a","h"," ","I"," ","s","e","e",","," ","h","m","m",
                  ","," ","b","u","t"," ","w","a","i","t"," ","w","h","a","t",
                  " ","a","b","o","u","t"," ","t","h","a","t">>),
     agent_speaking |-> TRUE, expected_action |-> "INTERRUPT"]
  }

RECURSIVE Join(_)
Join(pieces) ==
  IF pieces = <<>> THEN <<>>
  ELSE IF Len(pieces) = 1 THEN Head(pieces)
  ELSE Head(pieces) \o <<32>> \o Join(Tail(pieces))

Transcripts ==
  { Join(ps) : ps \in UNION { [1..n -> Vocabulary] : n \in 0..MaxPieces } }

\* p is a place of s where a whitespace-separated piece can be put
IsBoundary(s, p) ==
  IF p = 0 \/ p = Len(s) THEN TRUE
  ELSE s[p] \in Whitespace \/ s[p + 1] \in Whitespace

InsertPiece(s, p, piece) ==
  SubSeq(s, 1, p) \o <<32>> \o piece \o <<32>> \o SubSeq(s, p + 1, Len(s))

\* The places of s where a whitespace-delimited piece starts
PieceStarts(s) ==
  { i \in 1..Len(s) :
      /\ s[i] \notin Whitespace
      /\ (IF i = 1 THEN TRUE ELSE s[i - 1] \in Whitespace) }

\* The place where the piece that holds s[i] ends
RECURSIVE PieceEnd(_, _)
PieceEnd(s, i) ==
  IF i = Len(s) THEN i
  ELSE IF s[i + 1] \in Whitespace THEN i
  ELSE PieceEnd(s, i + 1)

IsStopPiece(piece) == strip(lower(piece), STRIP_CHARS) \in STOP_WORDS

RemovePiece(s, i, j) == SubSeq(s, 1, i - 1) \o SubSeq(s, j + 1, Len(s))

-----------------------------------------------------------------------------
(* Spec: the filter applied to transcripts and their stop-word variations *)

NoReason == [msg |-> "", toks |-> <<>>]

Init ==
  /\ transcript \in Transcripts \cup { tc.transcript : tc \in TestCases }
  /\ agent_speaking \in BOOLEAN
  /\ pc = "ready"
  /\ action = "NONE"
  /\ reason = NoReason
  /\ prev_action = "NONE"
  /\ varied = FALSE
  /\ now = 0
  /\ calls = <<>>

\* One call of test_filter_logic(transcript, agent_speaking)
CallFilter ==
  /\ pc = "ready"
  /\ LET r == test_filter_logic(transcript, agent_speaking)
     IN  /\ action' = r[1]
         /\ reason' = r[2]
  /\ pc' = "done"
  /\ UNCHANGED <<transcript, agent_speaking, prev_action, varied>>
  /\ UNCHANGED session_vars

\* The environment offers the classified transcript again with one more stop word
InsertStopWord ==
  /\ pc = "done"
  /\ \E p \in 0..Len(transcript), sw \in StopPieces :
       /\ IsBoundary(transcript, p)
       /\ Len(transcript) + Len(sw) + 2 <= MaxLen
       /\ transcript' = InsertPiece(transcript, p, sw)
  /\ pc' = "ready"
  /\ prev_action' = action
  /\ varied' = TRUE
  /\ UNCHANGED <<agent_speaking, action, reason>>
  /\ UNCHANGED session_vars

\* The environment offers the classified transcript again with one stop word less
RemoveStopWord ==
  /\ pc = "done"
  /\ \E i \in PieceStarts(transcript) :
       LET j == PieceEnd(transcript, i)
       IN  /\ IsStopPiece(SubSeq(transcript, i, j))
           /\ transcript' = RemovePiece(transcript, i, j)
  /\ pc' = "ready"
  /\ prev_action' = action
  /\ varied' = TRUE
  /\ UNCHANGED <<agent_speaking, action, reason>>
  /\ UNCHANGED session_vars

Next == CallFilter \/ InsertStopWord \/ RemoveStopWord

Spec == Init /\ [][Next]_vars

-----------------------------------------------------------------------------------------------------------------------------------------------------
(* SpecSession: consecutive calls of test_filter_logic in one session, with *)
(* the time of every call                                                  *)

TickSteps == { 50, 100 }

\* The transcripts run_test_suite passes, and two more
SessionTranscripts ==
  { tc.transcript : tc \in TestCases }
    \cup { Str(<<"S","t","o","p","!">>),
           Str(<<"Y","e","a","h"," ","h","e","l","l","o">>) }

InitSession ==
  /\ transcript = <<>>
  /\ agent_speaking = FALSE
  /\ pc = "ready"
  /\ action = "NONE"
  /\ reason = NoReason
  /\ prev_action = "NONE"
  /\ varied = FALSE
  /\ now = 0
  /\ calls = <<>>

\* The caller passes the next transcript and the agent-speaking flag to
\* test_filter_logic, as the loop of run_test_suite does
ClassifyCall ==
  /\ Len(calls) < MaxCalls
  /\ \E s \in SessionTranscripts, speaking \in BOOLEAN :
       LET r == test_filter_logic(s, speaking)
       IN  /\ transcript' = s
           /\ agent_speaking' = speaking
           /\ action' = r[1]
           /\ reason' = r[2]
           /\ calls' = Append(calls, [transcript |-> s, speaking |-> speaking,
                                      at |-> now, action |-> r[1]])
  /\ UNCHANGED <<pc, prev_action, varied, now>>

\* Time passes between two calls
Tick ==
  /\ \E d \in TickSteps :
       /\ now + d <= MaxTime
       /\ now' = now + d
  /\ UNCHANGED filter_vars
  /\ UNCHANGED calls

NextSession == ClassifyCall \/ Tick

SpecSession == InitSession /\ [][NextSession]_vars

\* Every scenario of run_test_suite yields its expected action
SuitePasses ==
  \A tc \in TestCases :
    (pc = "done" /\ transcript = tc.transcript /\ agent_speaking = tc.agent_speaking)
      => action = tc.expected_action

TypeOK ==
  /\ action \in Actions \cup {"NONE"}
  /\ pc \in {"ready", "done"}
  /\ \A k \in 1..Len(calls) : calls[k].at <= now

-----------------------------------------------------------------------------
(* Properties of the filter, checked under Spec *)

Classified == pc = "done"

HasInterruptToken(t) == \E i \in 1..Len(t) : t[i] \in INTERRUPT_WORDS

InNoList(w) == w \notin IGNORE_WORDS \cup FILLER_WORDS \cup INTERRUPT_WORDS

\* C1 (priority law): while the agent speaks, a transcript with at least one
\* token in INTERRUPT_WORDS is classified INTERRUPT, whatever its other
\* tokens are and wherever the interrupt token stands.
C1_InterruptPriority ==
  LET cur_tokens == Tokens(transcript) IN
    (Classified /\ agent_speaking /\ HasInterruptToken(cur_tokens)) => action = "INTERRUPT"

\* An ignore word comes first and an interrupt word after it
C1_Witness ==
  LET cur_tokens == Tokens(transcript) IN
    /\ Classified /\ agent_speaking
    /\ Len(cur_tokens) >= 2
    /\ cur_tokens[1] \in IGNORE_WORDS
    /\ cur_tokens[Len(cur_tokens)] \in INTERRUPT_WORDS
    /\ action = "INTERRUPT"

\* C2 (all-acceptable rule): while the agent speaks, a transcript with at
\* least one token, no token in INTERRUPT_WORDS and every token in
\* IGNORE_WORDS or FILLER_WORDS is classified SWALLOW.
C2_AllAcceptable ==
  LET cur_tokens == Tokens(transcript) IN
    ( /\ Classified /\ agent_speaking
      /\ cur_tokens # <<>>
      /\ ~HasInterruptToken(cur_tokens)
      /\ \A i \in 1..Len(cur_tokens) : cur_tokens[i] \in IGNORE_WORDS \cup FILLER_WORDS )
    => action = "SWALLOW"

\* Only filler words, the same word twice
C2_Witness ==
  LET cur_tokens == Tokens(transcript) IN
    /\ Classified /\ agent_speaking
    /\ Len(cur_tokens) >= 2
    /\ cur_tokens[1] = cur_tokens[2]
    /\ \A i \in 1..Len(cur_tokens) : cur_tokens[i] \in FILLER_WORDS
    /\ action = "SWALLOW"

\* C3 (mixed-content rule): while the agent speaks, a transcript with no
\* token in INTERRUPT_WORDS and at least one token in none of the three
\* lists is classified INTERRUPT.
C3_MixedContent ==
  LET cur_tokens == Tokens(transcript) IN
    ( /\ Classified /\ agent_speaking
      /\ ~HasInterruptToken(cur_tokens)
      /\ \E i \in 1..Len(cur_tokens) :
           InNoList(cur_tokens[i]) )
    => action = "INTERRUPT"

\* An ignore word together with a word of no list
C3_Witness ==
  LET cur_tokens == Tokens(transcript) IN
    /\ Classified /\ agent_speaking
    /\ ~HasInterruptToken(cur_tokens)
    /\ \E i \in 1..Len(cur_tokens) : cur_tokens[i] \in IGNORE_WORDS
    /\ \E i \in 1..Len(cur_tokens) :
         InNoList(cur_tokens[i])
    /\ action = "INTERRUPT"

\* Every whitespace-delimited piece of s is punctuation only or a stop word
NoContent(s) ==
  \A i \in PieceStarts(s) :
    LET t == strip(lower(SubSeq(s, i, PieceEnd(s, i))), STRIP_CHARS)
    IN  t = <<>> \/ t \in STOP_WORDS

\* C4 (empty-result rule): a transcript that is empty, whitespace only,
\* strip-set punctuation only, stop words only, or a mix of these, is
\* classified SWALLOW whether the agent speaks or not (never RESPOND).
C4_EmptyResult ==
  /\ (Classified /\ NoContent(transcript)) => action = "SWALLOW"
  /\ ( /\ Classified
       /\ \A k \in 1..Len(transcript) : transcript[k] \in Whitespace \cup STRIP_CHARS )
     => action = "SWALLOW"

\* The agent is silent and the transcript mixes a stop word with punctuation
C4_Witness ==
  /\ Classified /\ ~agent_speaking
  /\ NoContent(transcript)
  /\ Ord("A") \in Range(transcript)
  /\ \E k \in 1..Len(transcript) - 2 :
       SubSeq(transcript, k, k + 2) = Str(<<".", ".", ".">>)
  /\ action = "SWALLOW"

\* C5 (silent-agent rule): while the agent is silent, a transcript with at
\* least one token is classified RESPOND, also when its tokens are
\* interrupt, ignore or filler words.
C5_SilentAgent ==
  LET cur_tokens == Tokens(transcript) IN
    (Classified /\ ~agent_speaking /\ cur_tokens # <<>>) => action = "RESPOND"

\* The agent is silent and the transcript holds an interrupt word
C5_Witness ==
  LET cur_tokens == Tokens(transcript) IN
    /\ Classified /\ ~agent_speaking
    /\ HasInterruptToken(cur_tokens)
    /\ action = "RESPOND"

\* C7 (stop-word variation): putting a whitespace-separated stop word into a
\* transcript, or taking one out, leaves the action as it was, for either
\* value of the agent-speaking flag.
C7_StopWordInvariance ==
  (Classified /\ varied) => action = prev_action

\* A varied transcript with content, classified while the agent speaks
C7_Witness ==
  /\ Classified /\ varied /\ agent_speaking
  /\ prev_action = "INTERRUPT"
  /\ action = "INTERRUPT"
  /\ \E i \in PieceStarts(transcript) :
       IsStopPiece(SubSeq(transcript, i, PieceEnd(transcript, i)))

\* C8 (totality): every call returns exactly one of SWALLOW, RESPOND,
\* INTERRUPT, with a reason; no input falls through the rules.
C8_Totality ==
  Classified => (action \in Actions /\ reason.msg # "")

\* The last rule, mixed content, produced the result
C8_Witness ==
  /\ Classified
  /\ reason.msg = "Mixed content detected"
  /\ action = "INTERRUPT"

AtMostOneList(t) ==
  /\ ~(t \in IGNORE_WORDS /\ t \in INTERRUPT_WORDS)
  /\ ~(t \in IGNORE_WORDS /\ t \in FILLER_WORDS)
  /\ ~(t \in INTERRUPT_WORDS /\ t \in FILLER_WORDS)

\* C9 (lexicon disjointness): the three word lists are pairwise disjoint, so
\* every token is in at most one of them and no token is both acceptable
\* and an interrupt word.
\* (The lists never change: their disjointness is evaluated in the states
\* before the first call only.)
C9_LexiconDisjoint ==
  LET cur_tokens == Tokens(transcript) IN
    /\ action = "NONE" =>
         /\ IGNORE_WORDS \cap INTERRUPT_WORDS = {}
         /\ FILLER_WORDS \cap (IGNORE_WORDS \cup INTERRUPT_WORDS) = {}
    /\ \A i \in 1..Len(cur_tokens) : AtMostOneList(cur_tokens[i])
    /\ \A i \in 1..Len(cur_tokens) :
         ~(cur_tokens[i] \in IGNORE_WORDS \cup FILLER_WORDS /\ cur_tokens[i] \in INTERRUPT_WORDS)

\* A classified transcript with a token of each list
C9_Witness ==
  LET cur_tokens == Tokens(transcript) IN
    /\ Classified
    /\ \E i \in 1..Len(cur_tokens) : cur_tokens[i] \in IGNORE_WORDS
    /\ \E i \in 1..Len(cur_tokens) : cur_tokens[i] \in INTERRUPT_WORDS
    /\ \E i \in 1..Len(cur_tokens) : cur_tokens[i] \in FILLER_WORDS

SingleWord(words) == { w \in words : Ord(" ") \notin Range(w) }
MultiWord(words) == { w \in words : Ord(" ") \in Range(w) }

\* C10 (multi-word entries never match): the action is the one obtained
\* with every multi-word entry removed from the three lists; while the
\* agent speaks, a transcript that spells a multi-word ignore or filler
\* entry whose words are in no list is classified INTERRUPT.
C10_MultiWordNeverMatches ==
  LET cur_tokens == Tokens(transcript) IN
    /\ Classified =>
         action = FilterTokens(cur_tokens, agent_speaking, SingleWord(IGNORE_WORDS),
                               SingleWord(INTERRUPT_WORDS), SingleWord(FILLER_WORDS))[1]
    /\ ( /\ Classified /\ agent_speaking
         /\ Join(cur_tokens) \in MultiWord(IGNORE_WORDS \cup FILLER_WORDS)
         /\ \A i \in 1..Len(cur_tokens) :
              InNoList(cur_tokens[i]) )
       => action = "INTERRUPT"

\* The transcript spells the ignore entry "got it"
C10_Witness ==
  LET cur_tokens == Tokens(transcript) IN
    /\ Classified /\ agent_speaking
    /\ Join(cur_tokens) = Str(<<"g","o","t"," ","i","t">>)
    /\ Join(cur_tokens) \in IGNORE_WORDS
    /\ action = "INTERRUPT"

-----------------------------------------------------------------------------------------------------------------------------------------------------
(* The debounce law, checked under SpecSession *)

\* The decision time in force after the k-th call, as the law defines it: a
\* call made while the agent speaks, with tokens left, records its time
\* unless it comes less than MICRO_DEBOUNCE_MS after the recorded one; the
\* record is dropped when the agent is silent.  -1 when there is none.
RECURSIVE DecisionTimeAfter(_)
DecisionTimeAfter(k) ==
  IF k = 0 THEN -1
  ELSE LET c == calls[k]
           before == DecisionTimeAfter(k - 1)
       IN  IF ~c.speaking THEN -1
           ELSE IF Tokens(c.transcript) = <<>> THEN before
           ELSE IF before >= 0 /\ c.at - before < MICRO_DEBOUNCE_MS THEN before
           ELSE c.at

\* The k-th call recorded its decision time
RecordedDecision(k) ==
  LET c == calls[k]
      before == DecisionTimeAfter(k - 1)
  IN  /\ c.speaking
      /\ Tokens(c.transcript) # <<>>
      /\ ~(before >= 0 /\ c.at - before < MICRO_DEBOUNCE_MS)

\* C6 (debounce law): of any two consecutive calls of a session, both made
\* while the agent speaks, the second less than MICRO_DEBOUNCE_MS (150 ms)
\* after the first one's recorded decision time, the first returns the
\* action of its content rules and the second returns SWALLOW, whatever the
\* content rules make of the second transcript.
C6_DebounceLaw ==
  \A k \in 1..Len(calls) - 1 :
    ( /\ calls[k].speaking
      /\ calls[k + 1].speaking
      /\ RecordedDecision(k)
      /\ calls[k + 1].at - calls[k].at < MICRO_DEBOUNCE_MS )
    => /\ calls[k].action = test_filter_logic(calls[k].transcript, TRUE)[1]
       /\ calls[k + 1].action = "SWALLOW"

=============================================================================
